---- MODULE Spec2Model ----
(***************************************************************************)
(* State-machine model of the recommendation subsystem of ShopSmartAI:     *)
(*   ecommerce/recommendation_service.py  (RecommendationService)          *)
(*   ecommerce/recommendation_engine.py   (similarity / prediction)        *)
(* The interaction log (the UserInteraction table), the product catalog    *)
(* and the process-wide service instance are the state; every public       *)
(* method of the service is one action.                                    *)
(***************************************************************************)
EXTENDS Integers, Sequences, FiniteSets, TLC

(***************************************************************************)
(* Bounds of the model.                                                    *)
(***************************************************************************)
\* number of requests (operations) served in one run; also the clock's range
MaxClock == 1
\* largest n_recommendations a caller asks for
MaxN == 2
\* fixed-point resolution used where a similarity enters a weighted average
SimScale == 100

(***************************************************************************)
(* Program constants.                                                      *)
(***************************************************************************)
\* "if interaction_count % 50 == 0" in record_interaction
RetrainEvery == 50
\* default k of fast_predict_rating
DefaultK == 10

(***************************************************************************)
(* The catalog (Product table) and the identifiers requests may carry.     *)
(***************************************************************************)
\* products that exist in the catalog
Catalog == {1, 2, 3, 4}
\* product ids a record_interaction request may carry (9 is in no catalog row)
RequestProducts == {1, 2, 9}
\* the product id no catalog row has
MissingProduct == CHOOSE p \in RequestProducts : p \notin Catalog
ProductIds == Catalog \cup RequestProducts
\* product.category
CategoryOf(p) == IF p = 4 THEN "garden" ELSE "books"
\* sessions whose requests are served during a run
Sessions == {1, 2}
\* sessions that only appear in a log that already exists at start-up
OldSessions == {11, 12, 13, 14}
\* sessions a recommendation request may carry (9 never records anything)
ReadSessions == Sessions \cup {9}
\* the session that never recorded anything
UnseenSession == CHOOSE s \in ReadSessions : s \notin Sessions
\* interaction types the views pass to record_interaction
Kinds == {"view", "like", "dislike", "purchase"}
\* the interaction types the requests of a run carry
RequestKinds == {"like", "purchase"}

\* Optional values: None is the empty sequence, Some(x) a one-element one
None == << >>
Some(x) == << x >>
IsNone(o) == o = << >>
Get(o) == o[1]

Abs(x) == IF x < 0 THEN -x ELSE x
Smaller(a, b) == IF a < b THEN a ELSE b

\* F applied to the value of e, with e evaluated once
With(e, F(_)) == CHOOSE r \in {F(v) : v \in {e}} : TRUE

RECURSIVE SumOver(_, _)
\* the sum of f[x] over the finite set S
SumOver(f, S) ==
  IF S = {} THEN 0
  ELSE LET x == CHOOSE y \in S : TRUE IN f[x] + SumOver(f, S \ {x})

\* the smallest element of a non-empty set of integers
MinOf(S) == CHOOSE x \in S : \A y \in S : x <= y

(***************************************************************************)
(* Interaction Aggregator: prepare_interaction_data, _get_interaction_weight*)
(***************************************************************************)
\* weights.get(interaction_type, 1.0)
GetInteractionWeight(kind) ==
  CASE kind = "view"     -> 1
    [] kind = "like"     -> 3
    [] kind = "dislike"  -> -2
    [] kind = "purchase" -> 5
    [] OTHER             -> 1

\* an interaction event: one row of the UserInteraction table
Event(s, p, k, t) == [session |-> s, product |-> p, kind |-> k, timestamp |-> t]

\* variant of the aggregation in which a later event of a pair overwrites
\* the earlier ones instead of adding to them
PairWeightOverwritten(log, s, p) ==
  LET evs == {e \in log : e.session = s /\ e.product = p}
      e   == CHOOSE x \in evs : \A y \in evs : y.timestamp <= x.timestamp
  IN GetInteractionWeight(e.kind)

\* df.groupby(['session_key','product_id'])['weight'].sum(): the summed weight
\* of all events of the pair (s, p)
PairWeight(log, s, p) ==
  LET evs == {e \in log : e.session = s /\ e.product = p}
      w   == [e \in evs |-> GetInteractionWeight(e.kind)]
  IN SumOver(w, evs)

\* the (session, product) pairs of the grouped frame
Pairs(log) == {<<e.session, e.product>> : e \in log}

\* user_item_df['session_key'].unique(): the grouped frame is sorted by
\* (session_key, product_id), so sessions are numbered in ascending order
UserMappingOf(log) ==
  LET users == {e.session : e \in log}
  IN [u \in users |-> Cardinality({v \in users : v < u})]

\* user_item_df['product_id'].unique(): products are numbered by first
\* appearance in the frame sorted by (session_key, product_id)
ItemMappingOf(log) ==
  With([p \in {e.product : e \in log} |->
          MinOf({e.session : e \in {x \in log : x.product = p}})],
       LAMBDA first :
         [p \in DOMAIN first |->
            Cardinality({q \in DOMAIN first :
               first[q] < first[p] \/ (first[q] = first[p] /\ q < p)})])

\* {idx: key for key, idx in mapping.items()}
ReverseOf(mapping) ==
  LET idxs == {mapping[x] : x \in DOMAIN mapping}
  IN [i \in idxs |-> CHOOSE x \in DOMAIN mapping : mapping[x] = i]

\* a dense matrix: shape and cells (0-based indices, as numpy)
Matrix(rows, cols, cell) == [rows |-> rows, cols |-> cols, cell |-> cell]

\* np.zeros((n_users, n_items)) filled from the grouped frame, given the two
\* mappings
UserItemMatrixOf(log, um, im) ==
  With(<<ReverseOf(um), ReverseOf(im),
         [pr \in Pairs(log) |-> PairWeight(log, pr[1], pr[2])]>>,
       LAMBDA v :
         Matrix(Cardinality(DOMAIN um), Cardinality(DOMAIN im),
           [c \in (0..(Cardinality(DOMAIN um) - 1)) \X (0..(Cardinality(DOMAIN im) - 1)) |->
              IF <<v[1][c[1]], v[2][c[2]]>> \in DOMAIN v[3]
              THEN v[3][<<v[1][c[1]], v[2][c[2]]>>] ELSE 0]))

\* variant of prepare_interaction_data without the "if not interactions"
\* return: an empty table yields an empty matrix
PrepareInteractionDataNoEmptyCheck(log, fault) ==
  IF fault = "db"
  THEN [matrix |-> None, assigned |-> FALSE,
        user_mapping |-> << >>, item_mapping |-> << >>,
        reverse_user_mapping |-> << >>, reverse_item_mapping |-> << >>]
  ELSE With(<<UserMappingOf(log), ItemMappingOf(log)>>,
            LAMBDA v :
              [matrix |-> Some(UserItemMatrixOf(log, v[1], v[2])), assigned |-> TRUE,
               user_mapping |-> v[1],
               item_mapping |-> v[2],
               reverse_user_mapping |-> ReverseOf(v[1]),
               reverse_item_mapping |-> ReverseOf(v[2])])

\* prepare_interaction_data: None when there is no interaction or the query
\* faults (the except branch); otherwise the mappings it assigns to self and
\* the matrix it returns
PrepareInteractionData(log, fault) ==
  IF fault = "db" \/ log = {}
  THEN [matrix |-> None, assigned |-> FALSE,
        user_mapping |-> << >>, item_mapping |-> << >>,
        reverse_user_mapping |-> << >>, reverse_item_mapping |-> << >>]
  ELSE With(<<UserMappingOf(log), ItemMappingOf(log)>>,
            LAMBDA v :
              [matrix |-> Some(UserItemMatrixOf(log, v[1], v[2])), assigned |-> TRUE,
               user_mapping |-> v[1],
               item_mapping |-> v[2],
               reverse_user_mapping |-> ReverseOf(v[1]),
               reverse_item_mapping |-> ReverseOf(v[2])])

(***************************************************************************)
(* Similarity Engine (recommendation_engine.py).  A similarity value       *)
(* dot / (sqrt(ni) * sqrt(nj)) is held exactly as the triple               *)
(* [dot, ni, nj] of the dot product and the two squared norms.             *)
(***************************************************************************)
Sim(dot, ni, nj) == [dot |-> dot, ni |-> ni, nj |-> nj]
\* the literals 1.0 and 0.0
SimOne == Sim(1, 1, 1)
SimZero == Sim(0, 1, 1)

\* value > 0
SimPositive(a) == a.dot > 0

\* a squared norm the two values share (1 when they share none), cancelled
\* before cross-multiplying
SharedNorm(a, b) ==
  IF a.ni = b.ni \/ a.ni = b.nj THEN a.ni
  ELSE IF a.nj = b.ni \/ a.nj = b.nj THEN a.nj ELSE 1
RestNorm(a, c) ==
  IF c = 1 THEN a.ni * a.nj ELSE IF a.ni = c THEN a.nj ELSE a.ni

\* value(a) < value(b), decided exactly by cross-multiplying squares
SimLess(a, b) ==
  LET c  == SharedNorm(a, b)
      qa == a.dot * a.dot * RestNorm(b, c)
      qb == b.dot * b.dot * RestNorm(a, c)
  IN CASE a.dot < 0 /\ b.dot >= 0 -> TRUE
       [] a.dot >= 0 /\ b.dot < 0 -> FALSE
       [] a.dot >= 0 /\ b.dot >= 0 -> qa < qb
       [] OTHER -> qb < qa

SimEq(a, b) == ~SimLess(a, b) /\ ~SimLess(b, a)

RECURSIVE CeilSearch(_, _, _, _)
\* the least q in lo..hi with q * q * den >= num (hi satisfies it)
CeilSearch(lo, hi, num, den) ==
  IF lo >= hi THEN hi
  ELSE LET mid == (lo + hi) \div 2
       IN IF mid * mid * den >= num
          THEN CeilSearch(lo, mid, num, den)
          ELSE CeilSearch(mid + 1, hi, num, den)

\* a positive similarity in units of 1/SimScale, rounded up; used where the
\* code multiplies or adds similarities (the weighted average of a prediction)
SimFixed(a) ==
  IF a.dot <= 0 THEN 0
  ELSE CeilSearch(1, SimScale, SimScale * SimScale * a.dot * a.dot, a.ni * a.nj)

\* np.dot(matrix[i, :], matrix[j, :])
RowDot(m, i, j) ==
  SumOver([c \in 0..(m.cols - 1) |-> m.cell[<<i, c>>] * m.cell[<<j, c>>]],
          0..(m.cols - 1))
\* np.dot(matrix[:, i], matrix[:, j])
ColDot(m, i, j) ==
  SumOver([r \in 0..(m.rows - 1) |-> m.cell[<<r, i>>] * m.cell[<<r, j>>]],
          0..(m.rows - 1))

\* variant of an entry without the "if i == j" branch
SimilarityEntryNoDiagonal(i, j, dot, ni, nj) ==
  IF ni > 0 /\ nj > 0 THEN Sim(dot, ni, nj) ELSE SimZero

\* one entry of either similarity matrix, from the dot product and the two
\* squared norms: 1.0 on the diagonal, 0.0 when a norm is zero
SimilarityEntry(i, j, dot, ni, nj) ==
  IF i = j THEN SimOne
  ELSE IF ni > 0 /\ nj > 0 THEN Sim(dot, ni, nj) ELSE SimZero

\* variant of compute_cosine_similarity_matrix without the test of the norms:
\* the quotient is taken whatever the norms are
ComputeCosineSimilarityMatrixNoNormTest(m) ==
  With([i \in 0..(m.rows - 1) |-> RowDot(m, i, i)],
       LAMBDA norms :
         [c \in (0..(m.rows - 1)) \X (0..(m.rows - 1)) |->
            IF c[1] = c[2] THEN SimOne
            ELSE IF c[1] < c[2]
                 THEN Sim(RowDot(m, c[1], c[2]), norms[c[1]], norms[c[2]])
                 ELSE Sim(RowDot(m, c[2], c[1]), norms[c[2]], norms[c[1]])])

\* compute_cosine_similarity_matrix(matrix): n_users x n_users
ComputeCosineSimilarityMatrix(m) ==
  With([i \in 0..(m.rows - 1) |-> RowDot(m, i, i)],
       LAMBDA norms :
         [c \in (0..(m.rows - 1)) \X (0..(m.rows - 1)) |->
            IF c[1] <= c[2]
            THEN SimilarityEntry(c[1], c[2], RowDot(m, c[1], c[2]),
                                 norms[c[1]], norms[c[2]])
            ELSE SimilarityEntry(c[2], c[1], RowDot(m, c[2], c[1]),
                                 norms[c[2]], norms[c[1]])])

\* compute_item_similarity_matrix(matrix): n_items x n_items
ComputeItemSimilarityMatrix(m) ==
  With([i \in 0..(m.cols - 1) |-> ColDot(m, i, i)],
       LAMBDA item_norms :
         [c \in (0..(m.cols - 1)) \X (0..(m.cols - 1)) |->
            IF c[1] <= c[2]
            THEN SimilarityEntry(c[1], c[2], ColDot(m, c[1], c[2]),
                                 item_norms[c[1]], item_norms[c[2]])
            ELSE SimilarityEntry(c[2], c[1], ColDot(m, c[2], c[1]),
                                 item_norms[c[2]], item_norms[c[1]])])

\* a predicted rating: the exact quotient num / den (den > 0)
Score(num, den) == [num |-> num, den |-> den]
ScoreZero == Score(0, 1)
ScoreOne == Score(1, 1)
ScorePositive(a) == a.num > 0
ScoreLess(a, b) == a.num * b.den < b.num * a.den

\* "if i != user_idx and ratings[i] > 0": the rows that rated the item
Raters(m, user_idx, item_idx) ==
  {r \in 0..(m.rows - 1) : r # user_idx /\ m.cell[<<r, item_idx>>] > 0}

\* similar_users.sort(reverse=True) on (similarity, index, rating) tuples:
\* a comes before b
RaterBefore(sim, user_idx, a, b) ==
  \/ SimLess(sim[<<user_idx, b>>], sim[<<user_idx, a>>])
  \/ SimEq(sim[<<user_idx, a>>], sim[<<user_idx, b>>]) /\ a > b

\* fast_predict_rating(user_item_matrix, similarity_matrix, user_idx, item_idx, k)
FastPredictRating(m, sim, user_idx, item_idx, k) ==
  With(Raters(m, user_idx, item_idx),
       LAMBDA raters :
         \* similar_users[:k], then "if sim > 0"
         With({r \in raters :
                 /\ Cardinality({q \in raters : RaterBefore(sim, user_idx, q, r)}) < k
                 /\ SimPositive(sim[<<user_idx, r>>])},
              LAMBDA used :
                With([r \in used |-> SimFixed(sim[<<user_idx, r>>])],
                     LAMBDA w :
                       With(<<SumOver([r \in used |-> w[r] * m.cell[<<r, item_idx>>]], used),
                              SumOver(w, used)>>,
                            LAMBDA sums :
                              \* weighted_sum / similarity_sum
                              IF sums[2] > 0 THEN Score(sums[1], sums[2])
                              ELSE ScoreZero))))

\* recommendations.sort(key=rating, reverse=True): stable, so equal ratings
\* keep ascending column order; a comes before b
RatingBefore(pred, a, b) ==
  ScoreLess(pred[b], pred[a]) \/ (~ScoreLess(pred[a], pred[b]) /\ a < b)

\* compute_user_recommendations(user_item_matrix, similarity_matrix, user_idx, n):
\* the sequence of (item index, predicted rating) pairs
ComputeUserRecommendations(m, sim, user_idx, n) ==
  \* "if user_item_matrix[user_idx, i] == 0": predictions of the unseen columns
  With([i \in {c \in 0..(m.cols - 1) : m.cell[<<user_idx, c>>] = 0} |->
          FastPredictRating(m, sim, user_idx, i, DefaultK)],
       LAMBDA pred :
         \* "if predicted_rating > 0"
         With({i \in DOMAIN pred : ScorePositive(pred[i])},
              LAMBDA cand :
                With([i \in cand |->
                        Cardinality({j \in cand : RatingBefore(pred, j, i)})],
                     LAMBDA rank :
                       \* recommendations[:n_recommendations]
                       [x \in 1..Smaller(n, Cardinality(cand)) |->
                          With(CHOOSE c \in cand : rank[c] = x - 1,
                               LAMBDA i : [item |-> i, rating |-> pred[i]])])))

(***************************************************************************)
(* RecommendationService: the trained state and train_model                *)
(***************************************************************************)
\* RecommendationService.__init__
NewService ==
  [user_item_matrix |-> None,
   user_similarity_matrix |-> None,
   item_similarity_matrix |-> None,
   user_mapping |-> << >>,
   item_mapping |-> << >>,
   reverse_user_mapping |-> << >>,
   reverse_item_mapping |-> << >>,
   content_features |-> None,
   is_trained |-> FALSE]

\* faults a training pass can meet: "db" is the interaction query raising
TrainFaults == {"none", "db"}

\* prepare_content_features: None when no product is active, otherwise one
\* feature row per active product
PrepareContentFeatures(act) ==
  IF act = {} THEN None ELSE Some(act)

\* the assignments of prepare_interaction_data (lines 71-74) and line 144
AfterPrepare(s, prep) ==
  [s EXCEPT
     !.user_mapping = IF prep.assigned THEN prep.user_mapping ELSE @,
     !.item_mapping = IF prep.assigned THEN prep.item_mapping ELSE @,
     !.reverse_user_mapping = IF prep.assigned THEN prep.reverse_user_mapping ELSE @,
     !.reverse_item_mapping = IF prep.assigned THEN prep.reverse_item_mapping ELSE @,
     !.user_item_matrix = prep.matrix]

\* lines 150-162 of train_model: the similarity matrices, the content
\* features and the flag, from the matrix just built
AfterSimilarity(s1, m, act) ==
  [s1 EXCEPT
     !.user_similarity_matrix = Some(ComputeCosineSimilarityMatrix(m)),
     !.item_similarity_matrix = Some(ComputeItemSimilarityMatrix(m)),
     !.content_features = PrepareContentFeatures(act),
     !.is_trained = TRUE]

\* train_model: the service after the pass and the value returned
TrainModel(s, log, act, fault) ==
  With(PrepareInteractionData(log, fault),
       LAMBDA prep :
         IF IsNone(prep.matrix)
         THEN [svc |-> AfterPrepare(s, prep), ret |-> FALSE]
         ELSE [svc |-> AfterSimilarity(AfterPrepare(s, prep), Get(prep.matrix), act),
               ret |-> TRUE])

(***************************************************************************)
(* Fallbacks and the two read operations.  A query without ORDER BY, and    *)
(* ties under ORDER BY or argsort, may come back in any order: each        *)
(* operation is given as the set of results it can return.                 *)
(***************************************************************************)
\* one entry of a returned list
Rec(p, score, reason) == [product |-> p, score |-> score, reason |-> reason]

\* sequences of len distinct elements of S
Arrangements(S, len) ==
  {f \in [1..len -> S] : \A a, b \in 1..len : a # b => f[a] # f[b]}

\* Count('userinteraction') of a product
InteractionCount(log, p) == Cardinality({e \in log : e.product = p})

\* the arrangement f lists products of highest count first, and no product
\* it leaves out has a higher count than one it lists
TopByCount(cnt, f, len) ==
  /\ \A a, b \in 1..len : a < b => cnt[f[a]] >= cnt[f[b]]
  /\ \A q \in DOMAIN cnt \ {f[a] : a \in 1..len} :
       \A a \in 1..len : cnt[f[a]] >= cnt[q]

\* variant of _get_popular_recommendations without the is_active filter
GetPopularRecommendationsAnyProduct(log, act, n) ==
  With([p \in Catalog |-> InteractionCount(log, p)],
       LAMBDA cnt :
         {[x \in 1..Smaller(n, Cardinality(Catalog)) |->
             Rec(f[x], ScoreOne, "popularity")] :
            f \in {g \in Arrangements(Catalog, Smaller(n, Cardinality(Catalog))) :
                     TopByCount(cnt, g, Smaller(n, Cardinality(Catalog)))}})

\* _get_popular_recommendations(n): the active products ordered by
\* -interaction_count, cut to n
GetPopularRecommendations(log, act, n) ==
  With([p \in act |-> InteractionCount(log, p)],
       LAMBDA cnt :
         {[x \in 1..Smaller(n, Cardinality(act)) |->
             Rec(f[x], ScoreOne, "popularity")] :
            f \in {g \in Arrangements(act, Smaller(n, Cardinality(act))) :
                     TopByCount(cnt, g, Smaller(n, Cardinality(act)))}})

\* variant of _get_category_recommendations without exclude(id=product_id)
GetCategoryRecommendationsWithSelf(act, product_id, n) ==
  IF product_id \notin Catalog THEN {<< >>}
  ELSE LET peers == {q \in act : CategoryOf(q) = CategoryOf(product_id)}
           len == Smaller(n, Cardinality(peers))
       IN {[x \in 1..len |-> Rec(f[x], ScoreOne, "same_category")] :
             f \in Arrangements(peers, len)}

\* _get_category_recommendations(product_id, n): [] when the product does not
\* exist, else up to n other active products of its category
GetCategoryRecommendations(act, product_id, n) ==
  IF product_id \notin Catalog THEN {<< >>}
  ELSE LET peers == {q \in act : CategoryOf(q) = CategoryOf(product_id)
                                   /\ q # product_id}
           len == Smaller(n, Cardinality(peers))
       IN {[x \in 1..len |-> Rec(f[x], ScoreOne, "same_category")] :
             f \in Arrangements(peers, len)}

RECURSIVE KeepActive(_, _)
\* the loop over the candidates: Product.objects.get(id=..., is_active=True),
\* an inactive product is skipped
KeepActive(recs, act) ==
  IF recs = << >> THEN << >>
  ELSE IF Head(recs).product \in act
       THEN <<Head(recs)>> \o KeepActive(Tail(recs), act)
       ELSE KeepActive(Tail(recs), act)

\* compute_user_recommendations (lines 183-188) raises when the matrices
\* read cannot serve row user_mapping[session_key]
ComputeRaises(s, session_key) ==
  \/ IsNone(s.user_item_matrix)
  \/ IsNone(s.user_similarity_matrix)
  \/ LET m == Get(s.user_item_matrix)
         u == s.user_mapping[session_key]
     IN \/ u >= m.rows
        \/ \E r \in 0..(m.rows - 1) :
              <<u, r>> \notin DOMAIN Get(s.user_similarity_matrix)

\* lines 180-204 of get_user_recommendations raise when the held state cannot
\* serve the lookup (no matrix, an index outside a matrix or a mapping)
CollaborativeRaises(s, session_key) ==
  \/ ComputeRaises(s, session_key)
  \/ \E i \in 0..(Get(s.user_item_matrix).cols - 1) :
        i \notin DOMAIN s.reverse_item_mapping

\* lines 180-204: the collaborative result for a mapped session
CollaborativeRecommendations(s, act, session_key, n) ==
  With(ComputeUserRecommendations(Get(s.user_item_matrix),
                                  Get(s.user_similarity_matrix),
                                  s.user_mapping[session_key], n),
       LAMBDA recs :
         KeepActive([x \in 1..Len(recs) |->
                       Rec(s.reverse_item_mapping[recs[x].item], recs[x].rating,
                           "collaborative_filtering")],
                    act))

\* get_user_recommendations after the lazy training pass: the results the
\* call can return from service state s
UserRecommendationsFrom(s, log, act, session_key, n) ==
  IF ~s.is_trained \/ session_key \notin DOMAIN s.user_mapping
  THEN GetPopularRecommendations(log, act, n)
  ELSE IF CollaborativeRaises(s, session_key)
       THEN GetPopularRecommendations(log, act, n)
       ELSE {CollaborativeRecommendations(s, act, session_key, n)}

\* np.argsort(similarities)[::-1]: an ascending order of the row, reversed;
\* equal similarities may come in either order
DescendingOrders(row, count) ==
  {f \in Arrangements(0..(count - 1), count) :
     \A a, b \in 1..count : a < b => ~SimLess(row[f[a]], row[f[b]])}

RECURSIVE SimilarLoop(_, _, _, _)
\* the loop of get_similar_products over similar_indices
SimilarLoop(idxs, row, s, act) ==
  IF idxs = << >> THEN << >>
  ELSE LET idx  == Head(idxs)
           rest == SimilarLoop(Tail(idxs), row, s, act)
       IN IF SimPositive(row[idx]) /\ s.reverse_item_mapping[idx] \in act
          THEN <<Rec(s.reverse_item_mapping[idx], row[idx], "item_similarity")>>
               \o rest
          ELSE rest

\* "self.item_similarity_matrix[item_idx, :]" (line 224) raises when the
\* matrix read has no row item_mapping[product_id]
RowRaises(s, product_id) ==
  \/ IsNone(s.item_similarity_matrix)
  \/ <<s.item_mapping[product_id], s.item_mapping[product_id]>>
        \notin DOMAIN Get(s.item_similarity_matrix)

\* lines 221-243 raise when the held state cannot serve the lookup
SimilarRaises(s, product_id) ==
  \/ RowRaises(s, product_id)
  \/ \E c \in DOMAIN Get(s.item_similarity_matrix) :
        c[1] = s.item_mapping[product_id] /\ c[2] \notin DOMAIN s.reverse_item_mapping

\* similarities = self.item_similarity_matrix[item_idx, :]
SimilarityRow(sim, item_idx) ==
  [j \in {c[2] : c \in {d \in DOMAIN sim : d[1] = item_idx}} |-> sim[<<item_idx, j>>]]

\* the slice [1:n+1] of a sequence of indices: "Exclude self"
ExcludeSelf(ord, n) == SubSeq(ord, 2, Smaller(n + 1, Len(ord)))

\* lines 221-243: the loop over [1:n+1] of the descending order
SimilarByItem(s, act, product_id, n) ==
  With(SimilarityRow(Get(s.item_similarity_matrix), s.item_mapping[product_id]),
       LAMBDA row :
         {SimilarLoop(ExcludeSelf(ord, n), row, s, act) :
            ord \in DescendingOrders(row, Cardinality(DOMAIN row))})

\* get_similar_products after the lazy training pass
SimilarProductsFrom(s, act, product_id, n) ==
  IF ~s.is_trained \/ product_id \notin DOMAIN s.item_mapping
  THEN GetCategoryRecommendations(act, product_id, n)
  ELSE IF SimilarRaises(s, product_id)
       THEN GetCategoryRecommendations(act, product_id, n)
       ELSE SimilarByItem(s, act, product_id, n)

(***************************************************************************)
(* State                                                                   *)
(***************************************************************************)
VARIABLES
  interactions,  \* the UserInteraction table: a set of events
  active,        \* the products with is_active = True
  now,           \* the clock timezone.now() reads
  svc,           \* the process-wide RecommendationService instance
  last,          \* the last call served: its arguments and what it returned
  trainer,       \* the thread inside train_model: the statement it is at
  reader,        \* the thread inside a read operation: what it has read so far
  passes,        \* the trained states complete training passes produce
  engine,        \* a direct call of a function of recommendation_engine.py
  recorders      \* the threads inside record_interaction

vars == <<interactions, active, now, svc, last, trainer, reader, passes,
          engine, recorders>>

\* the part of the state the calls served one at a time leave alone
conc == <<trainer, reader, passes, engine, recorders>>

\* the record of a call; fields a call does not use keep these defaults
Call(op) ==
  [op |-> op, session |-> 0, product |-> 0, kind |-> "", n |-> 0,
   ok |-> FALSE,          \* the boolean returned (train_model, record_interaction)
   result |-> << >>,      \* the list returned (the two read operations)
   created |-> FALSE,     \* get_or_create's created flag
   trains |-> 0,          \* train_model calls made while serving the call
   train_ok |-> FALSE,    \* what that train_model call returned
   fault |-> "none",      \* the fault that train_model call met
   train_saw |-> FALSE,   \* the table that train_model call read held the call's event
   was_trained |-> FALSE, \* is_trained when the call started
   raised |-> FALSE]      \* the call ended in an exception instead of a return

(***************************************************************************)
(* Tables that exist when the service is constructed.  The table persists  *)
(* across restarts of the process, the service instance does not.          *)
(***************************************************************************)
KindIndex(k) ==
  CASE k = "view" -> 0 [] k = "like" -> 1 [] k = "dislike" -> 2 [] OTHER -> 3

\* the first n events of the old sessions, in (session, product, kind) order
OldLog(n) ==
  {Event(t[1], t[2], t[3], 0) : t \in
     {t \in OldSessions \X Catalog \X Kinds :
        (t[1] - MinOf(OldSessions)) * 16 + (t[2] - 1) * 4 + KindIndex(t[3]) < n}}

SeedA ==
  {Event(1, 1, "like", 0), Event(2, 1, "like", 0),
   Event(2, 2, "purchase", 0), Event(2, 3, "view", 0)}
SeedB ==
  {Event(1, 1, "view", 0), Event(1, 2, "like", 0), Event(2, 3, "purchase", 0)}
SeedC ==
  {Event(1, 1, "like", 0), Event(1, 2, "dislike", 0),
   Event(2, 1, "like", 0), Event(2, 3, "purchase", 0),
   Event(11, 1, "view", 0), Event(11, 2, "purchase", 0), Event(11, 3, "like", 0)}

SeedLogs == {{}, SeedA, SeedB, SeedC}
\* tables two, one and no event short of the retraining threshold
InitialLogs ==
  SeedLogs \cup
  {OldLog(RetrainEvery - 2), OldLog(RetrainEvery - 1),
   OldLog(RetrainEvery - 1) \cup {Event(1, 1, "like", 0)}}

ActiveChoices == {Catalog, Catalog \ {2}}

\* no thread is inside train_model
IdleTrainer ==
  [pc |-> "idle", pass |-> 0, prep |-> PrepareInteractionData({}, "none")]

\* no thread is inside a read operation
IdleReader ==
  [pc |-> "idle", op |-> "", key |-> 0, n |-> 0,
   seen |-> {},          \* the fields of the service read so far
   view |-> NewService,  \* the value each of them had when read
   result |-> << >>]

\* no function of the engine has been called directly
IdleEngine ==
  [op |-> "idle", matrix |-> Matrix(0, 0, << >>), sim |-> << >>,
   user_idx |-> 0, item_idx |-> 0, k |-> 0, out |-> ScoreZero]

\* the request threads, and none of them inside record_interaction
Threads == {1, 2}
IdleRecorders ==
  [t \in Threads |->
     [pc |-> "idle", product |-> 0, kind |-> "",
      count |-> 0,     \* what UserInteraction.objects.count() returned
      calls |-> 0,     \* calls the thread has returned from
      trains |-> 0]]   \* train_model calls the thread has made

\* calls are served one at a time
Sequential ==
  /\ trainer = IdleTrainer
  /\ reader = IdleReader
  /\ passes = {}
  /\ engine = IdleEngine
  /\ recorders = IdleRecorders

Init ==
  /\ interactions \in InitialLogs
  /\ active \in ActiveChoices
  /\ now = 0
  /\ svc = NewService
  /\ last = Call("init")
  /\ Sequential

(***************************************************************************)
(* Operations of the service                                               *)
(***************************************************************************)
\* variant of the lookup that leaves interaction_type out of the key
MatchingAnyKind(log, s, p, k) ==
  {e \in log : e.session = s /\ e.product = p}

\* the rows get_or_create's lookup matches
Matching(log, s, p, k) ==
  {e \in log : e.session = s /\ e.product = p /\ e.kind = k}

\* variant of the upsert that inserts a row on every call
UpsertAlwaysInsert(log, s, p, k, t) == log \cup {Event(s, p, k, t)}

\* get_or_create + save: the table after the upsert of (s, p, k) at time t
Upsert(log, s, p, k, t) ==
  (log \ Matching(log, s, p, k)) \cup {Event(s, p, k, t)}

\* get_or_create raises MultipleObjectsReturned on a duplicated tuple
UpsertRaises(log, s, p, k) == Cardinality(Matching(log, s, p, k)) > 1

\* variant of the retrain check that counts before the upsert is visible
RetrainDueOffByOne(count) == (count + 1) % RetrainEvery = 0

\* "if interaction_count % 50 == 0"
RetrainDue(count) == count % RetrainEvery = 0

\* the table train_model reads when record_interaction calls it: the call
\* comes after the upsert
TableAtRetrain(before, after) == after

\* variant in which record_interaction returns what train_model returned
RecordReturnOfTrain(train_ret) == train_ret

\* what record_interaction returns once the upsert is done, whatever
\* train_model returned
RecordReturn(train_ret) == TRUE

\* variant without the product lookup
ProductExistsUnchecked(product_id) == TRUE

\* Product.objects.get(id=product_id) finds a row
ProductExists(product_id) == product_id \in Catalog

\* lines 305-310: the retrain check on the table the upsert left, and the
\* value returned
AfterUpsert(s, log, log2, act, call, created, ev, tfault) ==
  IF RetrainDue(Cardinality(log2))
  THEN With(TrainModel(s, TableAtRetrain(log, log2), act, tfault),
            LAMBDA train :
              [log |-> log2, svc |-> train.svc, committed |-> TRUE,
               call |-> [call EXCEPT
                           !.ok = RecordReturn(train.ret),
                           !.created = created,
                           !.trains = 1,
                           !.train_ok = train.ret,
                           !.fault = tfault,
                           !.train_saw = ev \in TableAtRetrain(log, log2)]])
  ELSE [log |-> log2, svc |-> s, committed |-> TRUE,
        call |-> [call EXCEPT !.ok = TRUE, !.created = created]]

\* the outcome of record_interaction: the table, the service and the call record
RecordOutcome(s, log, act, t, session_key, product_id, kind, tfault) ==
  With([Call("record") EXCEPT
          !.session = session_key, !.product = product_id, !.kind = kind,
          !.was_trained = s.is_trained],
       LAMBDA call :
         IF ~ProductExists(product_id)
            \/ UpsertRaises(log, session_key, product_id, kind)
         THEN [log |-> log, svc |-> s, committed |-> FALSE, call |-> call]
         ELSE With(Upsert(log, session_key, product_id, kind, t),
                   LAMBDA log2 :
                     AfterUpsert(s, log, log2, act, call,
                                 Matching(log, session_key, product_id, kind) = {},
                                 Event(session_key, product_id, kind, t), tfault)))

\* the faults worth distinguishing for a call that may train
FaultsWhen(trains) == IF trains THEN TrainFaults ELSE {"none"}

\* record_interaction(session_key, product_id, interaction_type); every
\* committed upsert is stamped with a later time than the ones before it
RecordInteraction ==
  \E session_key \in Sessions, product_id \in RequestProducts, kind \in RequestKinds :
    \E tfault \in FaultsWhen(RetrainDue(Cardinality(
                     Upsert(interactions, session_key, product_id, kind, now + 1)))) :
      \E out \in {RecordOutcome(svc, interactions, active, now + 1,
                                 session_key, product_id, kind, tfault)} :
         /\ out.committed => now < MaxClock
         /\ interactions' = out.log
         /\ svc' = out.svc
         /\ last' = out.call
         /\ now' = IF out.committed THEN now + 1 ELSE now
         /\ UNCHANGED active
         /\ UNCHANGED conc

\* train_model()
Train ==
  \E fault \in TrainFaults :
    \E out \in {TrainModel(svc, interactions, active, fault)} :
       /\ svc' = out.svc
       /\ last' = [Call("train") EXCEPT
                     !.ok = out.ret, !.trains = 1, !.train_ok = out.ret,
                     !.fault = fault,
                     !.was_trained = svc.is_trained]
       /\ UNCHANGED <<interactions, active, now>>
       /\ UNCHANGED conc

\* variant of the head of the reads that trains on every call
LazyTrainAlways(s, log, act, tfault) ==
  With(TrainModel(s, log, act, tfault),
       LAMBDA t : [svc |-> t.svc, ret |-> t.ret, trains |-> 1])

\* "if not self.is_trained: self.train_model()" at the head of both reads:
\* the service afterwards and the number of train_model calls made
LazyTrain(s, log, act, tfault) ==
  IF ~s.is_trained
  THEN With(TrainModel(s, log, act, tfault),
            LAMBDA t : [svc |-> t.svc, ret |-> t.ret, trains |-> 1])
  ELSE [svc |-> s, ret |-> FALSE, trains |-> 0]

\* the body of get_user_recommendations (lines 172-204) raises
UserBodyRaises(s, session_key) ==
  /\ s.is_trained
  /\ session_key \in DOMAIN s.user_mapping
  /\ CollaborativeRaises(s, session_key)

\* the body of get_similar_products (lines 214-243) raises
SimilarBodyRaises(s, product_id) ==
  /\ s.is_trained
  /\ product_id \in DOMAIN s.item_mapping
  /\ SimilarRaises(s, product_id)

\* variant of the reads without the "except Exception" clause
PropagatesUncaught(body_raises) == body_raises

\* a read ends in an exception: never, "except Exception" (lines 206, 245)
\* catches whatever the body raises and returns the fallback, which has a
\* handler of its own (lines 264, 282)
Propagates(body_raises) == FALSE

\* the call record of a read
ReadCall(op, s, out, tfault) ==
  [Call(op) EXCEPT
     !.trains = out.trains,
     !.train_ok = out.ret,
     !.fault = tfault,
     !.was_trained = s.is_trained]

\* get_user_recommendations(session_key, n_recommendations)
GetUserRecommendations ==
  \E tfault \in FaultsWhen(~svc.is_trained) :
    \E out \in {LazyTrain(svc, interactions, active, tfault)} :
       \E session_key \in ReadSessions, n \in 1..MaxN :
         \E res \in UserRecommendationsFrom(out.svc, interactions, active,
                                             session_key, n) :
           /\ svc' = out.svc
           /\ last' = [ReadCall("recommend", svc, out, tfault) EXCEPT
                         !.session = session_key, !.n = n, !.result = res,
                         !.raised = Propagates(UserBodyRaises(out.svc, session_key))]
           /\ UNCHANGED <<interactions, active, now>>
           /\ UNCHANGED conc

\* get_similar_products(product_id, n_recommendations)
GetSimilarProducts ==
  \E tfault \in FaultsWhen(~svc.is_trained) :
    \E out \in {LazyTrain(svc, interactions, active, tfault)} :
       \E product_id \in ProductIds, n \in 1..MaxN :
         \E res \in SimilarProductsFrom(out.svc, active, product_id, n) :
           /\ svc' = out.svc
           /\ last' = [ReadCall("similar", svc, out, tfault) EXCEPT
                         !.product = product_id, !.n = n, !.result = res,
                         !.raised = Propagates(SimilarBodyRaises(out.svc, product_id))]
           /\ UNCHANGED <<interactions, active, now>>
           /\ UNCHANGED conc

(***************************************************************************)
(* Specifications                                                          *)
(***************************************************************************)
\* the whole service
Next ==
  \/ RecordInteraction
  \/ Train
  \/ GetUserRecommendations
  \/ GetSimilarProducts

Spec == Init /\ [][Next]_vars

\* the write side: interactions are recorded and the model is retrained
NextRecord ==
  \/ RecordInteraction
  \/ Train

SpecRecord == Init /\ [][NextRecord]_vars

\* events the sessions record after a training pass
LaterEvents ==
  {{}, {Event(1, 2, "purchase", 1)}, {Event(2, 1, "like", 1)}}

\* the read side starts from a service that is new, or that was trained on
\* the table before the latest events were recorded
InitRead ==
  /\ active \in ActiveChoices
  /\ \E base \in SeedLogs, later \in LaterEvents :
       /\ interactions =
            {e \in base : \A l \in later :
               e \notin Matching(base, l.session, l.product, l.kind)} \cup later
       /\ now = IF later = {} THEN 0 ELSE 1
       /\ svc \in {NewService, TrainModel(NewService, base, active, "none").svc}
  /\ last = Call("init")
  /\ Sequential

NextRead ==
  \/ Train
  \/ GetUserRecommendations
  \/ GetSimilarProducts

SpecRead == InitRead /\ [][NextRead]_vars

\* reads and writes against a service that is new, or that was trained on
\* the table before the latest events were recorded; a table one event
\* short of the retraining threshold has no later events, the event that
\* reaches the threshold retrains.  The clock is one tick before its bound:
\* a run records one more event, between any number of reads
InitFrame ==
  /\ active = Catalog
  /\ \E base \in {SeedB, OldLog(RetrainEvery - 1)},
        later \in {{Event(l.session, l.product, l.kind, 0) : l \in L} :
                     L \in LaterEvents} :
       /\ Cardinality(base) = RetrainEvery - 1 => later = {}
       /\ interactions =
            {e \in base : \A l \in later :
               e \notin Matching(base, l.session, l.product, l.kind)} \cup later
       /\ now = MaxClock - 1
       /\ svc \in {NewService, TrainModel(NewService, base, active, "none").svc}
  /\ last = Call("init")
  /\ Sequential

NextFrame ==
  \/ RecordInteraction
  \/ GetUserRecommendations
  \/ GetSimilarProducts

SpecFrame == InitFrame /\ [][NextFrame]_vars

(***************************************************************************)
(* Concurrent runs: one thread inside train_model while another is inside  *)
(* a read operation.  The service holds no lock, so the threads interleave *)
(* at every assignment to, and every read of, a field of the service.      *)
(***************************************************************************)
\* training passes one run starts
MaxPasses == 1

\* the trained state: the fields a reader works from
TrainedFields ==
  {"user_item_matrix", "user_similarity_matrix", "item_similarity_matrix",
   "user_mapping", "item_mapping", "reverse_user_mapping",
   "reverse_item_mapping", "is_trained"}

\* the service was trained on the table as it was before the latest events
InitConc ==
  /\ active \in ActiveChoices
  /\ \E base \in {SeedA, SeedB}, later \in LaterEvents :
       /\ interactions =
            {e \in base : \A l \in later :
               e \notin Matching(base, l.session, l.product, l.kind)} \cup later
       /\ now = IF later = {} THEN 0 ELSE 1
       /\ svc = TrainModel(NewService, base, active, "none").svc
  /\ last = Call("init")
  /\ trainer = IdleTrainer
  /\ reader = IdleReader
  /\ passes = {svc}
  /\ engine = IdleEngine
  /\ recorders = IdleRecorders

\* the trainer moves to statement pc
TrainerAt(pc) == trainer' = [trainer EXCEPT !.pc = pc]

\* train_model is entered (line 136)
TrainBegin ==
  /\ trainer.pc = "idle"
  /\ trainer.pass < MaxPasses
  /\ trainer' = [trainer EXCEPT !.pc = "query", !.pass = @ + 1]
  /\ UNCHANGED <<interactions, active, now, svc, last, reader, passes>>
  /\ UNCHANGED <<engine, recorders>>

\* lines 42-69 of prepare_interaction_data: the query and the grouped frame
TrainQuery ==
  /\ trainer.pc = "query"
  /\ \E prep \in {PrepareInteractionData(interactions, "none")} :
       trainer' = [trainer EXCEPT
                     !.pc = IF prep.assigned THEN "l71" ELSE "l144",
                     !.prep = prep]
  /\ passes' = passes \cup {TrainModel(svc, interactions, active, "none").svc}
  /\ UNCHANGED <<interactions, active, now, svc, last, reader>>
  /\ UNCHANGED <<engine, recorders>>

\* line 71: self.user_mapping = ...
Assign71 ==
  /\ trainer.pc = "l71"
  /\ svc' = [svc EXCEPT !.user_mapping = trainer.prep.user_mapping]
  /\ TrainerAt("l72")
  /\ UNCHANGED <<interactions, active, now, last, reader, passes>>
  /\ UNCHANGED <<engine, recorders>>

\* line 72: self.item_mapping = ...
Assign72 ==
  /\ trainer.pc = "l72"
  /\ svc' = [svc EXCEPT !.item_mapping = trainer.prep.item_mapping]
  /\ TrainerAt("l73")
  /\ UNCHANGED <<interactions, active, now, last, reader, passes>>
  /\ UNCHANGED <<engine, recorders>>

\* line 73: self.reverse_user_mapping, from self.user_mapping
Assign73 ==
  /\ trainer.pc = "l73"
  /\ svc' = [svc EXCEPT !.reverse_user_mapping = ReverseOf(svc.user_mapping)]
  /\ TrainerAt("l74")
  /\ UNCHANGED <<interactions, active, now, last, reader, passes>>
  /\ UNCHANGED <<engine, recorders>>

\* line 74: self.reverse_item_mapping, from self.item_mapping
Assign74 ==
  /\ trainer.pc = "l74"
  /\ svc' = [svc EXCEPT !.reverse_item_mapping = ReverseOf(svc.item_mapping)]
  /\ TrainerAt("l144")
  /\ UNCHANGED <<interactions, active, now, last, reader, passes>>
  /\ UNCHANGED <<engine, recorders>>

\* line 144: self.user_item_matrix = self.prepare_interaction_data(), and the
\* return of line 148 when that is None
Assign144 ==
  /\ trainer.pc = "l144"
  /\ svc' = [svc EXCEPT !.user_item_matrix = trainer.prep.matrix]
  /\ TrainerAt(IF IsNone(trainer.prep.matrix) THEN "idle" ELSE "l152")
  /\ UNCHANGED <<interactions, active, now, last, reader, passes>>
  /\ UNCHANGED <<engine, recorders>>

\* line 152: self.user_similarity_matrix, from self.user_item_matrix
Assign152 ==
  /\ trainer.pc = "l152"
  /\ svc' = [svc EXCEPT !.user_similarity_matrix =
               Some(ComputeCosineSimilarityMatrix(Get(svc.user_item_matrix)))]
  /\ TrainerAt("l155")
  /\ UNCHANGED <<interactions, active, now, last, reader, passes>>
  /\ UNCHANGED <<engine, recorders>>

\* line 155: self.item_similarity_matrix, from self.user_item_matrix
Assign155 ==
  /\ trainer.pc = "l155"
  /\ svc' = [svc EXCEPT !.item_similarity_matrix =
               Some(ComputeItemSimilarityMatrix(Get(svc.user_item_matrix)))]
  /\ TrainerAt("l158")
  /\ UNCHANGED <<interactions, active, now, last, reader, passes>>
  /\ UNCHANGED <<engine, recorders>>

\* line 158: self.content_features = self.prepare_content_features()
Assign158 ==
  /\ trainer.pc = "l158"
  /\ svc' = [svc EXCEPT !.content_features = PrepareContentFeatures(active)]
  /\ TrainerAt("l160")
  /\ UNCHANGED <<interactions, active, now, last, reader, passes>>
  /\ UNCHANGED <<engine, recorders>>

\* line 160: self.is_trained = True, and the return
Assign160 ==
  /\ trainer.pc = "l160"
  /\ svc' = [svc EXCEPT !.is_trained = TRUE]
  /\ TrainerAt("idle")
  /\ UNCHANGED <<interactions, active, now, last, reader, passes>>
  /\ UNCHANGED <<engine, recorders>>

\* the mapping a read operation looks its argument up in
MappingOf(op) == IF op = "recommend" THEN "user_mapping" ELSE "item_mapping"

\* the fallback of a read operation
Fallback(op, key, n) ==
  IF op = "recommend"
  THEN GetPopularRecommendations(interactions, active, n)
  ELSE GetCategoryRecommendations(active, key, n)

\* the reader has read field f of service s
Reading(r, s, f) ==
  [r EXCEPT !.seen = @ \cup {f}, !.view = [@ EXCEPT ![f] = s[f]]]

\* the read operation returns res
Returns(r, res) == [r EXCEPT !.pc = "idle", !.result = res]

\* get_user_recommendations or get_similar_products is entered
ReadBegin ==
  /\ reader.pc = "idle"
  /\ \E op \in {"recommend", "similar"}, n \in 1..MaxN :
       \E key \in IF op = "recommend" THEN ReadSessions ELSE ProductIds :
         reader' = [IdleReader EXCEPT
                      !.pc = "check", !.op = op, !.key = key, !.n = n]
  /\ UNCHANGED <<interactions, active, now, svc, last, trainer, passes>>
  /\ UNCHANGED <<engine, recorders>>

\* lines 174-179 (215-219): the lazy training pass and the fallback test
ReadCheck ==
  /\ reader.pc = "check"
  /\ \E out \in {LazyTrain(svc, interactions, active, "none")} :
       /\ svc' = out.svc
       /\ passes' = IF out.trains = 1 THEN passes \cup {out.svc} ELSE passes
       /\ \E r \in {Reading(Reading(reader, out.svc, "is_trained"),
                            out.svc, MappingOf(reader.op))} :
            IF ~out.svc.is_trained
                 \/ reader.key \notin DOMAIN out.svc[MappingOf(reader.op)]
            THEN \E res \in Fallback(reader.op, reader.key, reader.n) :
                   reader' = Returns(r, res)
            ELSE reader' = [r EXCEPT !.pc = "index"]
  /\ UNCHANGED <<interactions, active, now, last, trainer>>
  /\ UNCHANGED <<engine, recorders>>

\* line 180 (221): the index of the argument, or KeyError and the fallback
ReadIndex ==
  /\ reader.pc = "index"
  /\ \E r \in {Reading(reader, svc, MappingOf(reader.op))} :
       IF reader.key \notin DOMAIN svc[MappingOf(reader.op)]
       THEN \E res \in Fallback(reader.op, reader.key, reader.n) :
              reader' = Returns(r, res)
       ELSE reader' = [r EXCEPT
                         !.pc = IF reader.op = "recommend" THEN "matrix" ELSE "row"]
  /\ UNCHANGED <<interactions, active, now, svc, last, trainer, passes>>
  /\ UNCHANGED <<engine, recorders>>

\* line 184: the argument self.user_item_matrix
ReadMatrix ==
  /\ reader.pc = "matrix"
  /\ reader' = [Reading(reader, svc, "user_item_matrix") EXCEPT !.pc = "similarity"]
  /\ UNCHANGED <<interactions, active, now, svc, last, trainer, passes>>
  /\ UNCHANGED <<engine, recorders>>

\* lines 185-188: the argument self.user_similarity_matrix and the call of
\* compute_user_recommendations
ReadSimilarity ==
  /\ reader.pc = "similarity"
  /\ \E r \in {Reading(reader, svc, "user_similarity_matrix")} :
       IF ComputeRaises(r.view, reader.key)
       THEN \E res \in Fallback(reader.op, reader.key, reader.n) :
              reader' = Returns(r, res)
       ELSE reader' = [r EXCEPT !.pc = "convert"]
  /\ UNCHANGED <<interactions, active, now, svc, last, trainer, passes>>
  /\ UNCHANGED <<engine, recorders>>

\* line 224: similarities = self.item_similarity_matrix[item_idx, :]
ReadRow ==
  /\ reader.pc = "row"
  /\ \E r \in {Reading(reader, svc, "item_similarity_matrix")} :
       IF RowRaises(r.view, reader.key)
       THEN \E res \in Fallback(reader.op, reader.key, reader.n) :
              reader' = Returns(r, res)
       ELSE reader' = [r EXCEPT !.pc = "convert"]
  /\ UNCHANGED <<interactions, active, now, svc, last, trainer, passes>>
  /\ UNCHANGED <<engine, recorders>>

\* lines 191-204 (229-243): the loop over self.reverse_item_mapping
ReadConvert ==
  /\ reader.pc = "convert"
  /\ \E r \in {Reading(reader, svc, "reverse_item_mapping")} :
       \E res \in IF reader.op = "recommend"
                  THEN IF CollaborativeRaises(r.view, reader.key)
                       THEN Fallback(reader.op, reader.key, reader.n)
                       ELSE {CollaborativeRecommendations(r.view, active,
                                                          reader.key, reader.n)}
                  ELSE IF SimilarRaises(r.view, reader.key)
                       THEN Fallback(reader.op, reader.key, reader.n)
                       ELSE SimilarByItem(r.view, active, reader.key, reader.n) :
         reader' = Returns(r, res)
  /\ UNCHANGED <<interactions, active, now, svc, last, trainer, passes>>
  /\ UNCHANGED <<engine, recorders>>

NextConc ==
  \/ TrainBegin
  \/ TrainQuery
  \/ Assign71
  \/ Assign72
  \/ Assign73
  \/ Assign74
  \/ Assign144
  \/ Assign152
  \/ Assign155
  \/ Assign158
  \/ Assign160
  \/ ReadBegin
  \/ ReadCheck
  \/ ReadIndex
  \/ ReadMatrix
  \/ ReadSimilarity
  \/ ReadRow
  \/ ReadConvert

SpecConc == InitConc /\ [][NextConc]_vars

(***************************************************************************)
(* Properties of concurrent runs (SpecConc)                                *)
(***************************************************************************)
\* fields fs of record r all hold what one complete training pass produced
FromOnePass(r, fs) == \E p \in passes : \A f \in fs : r[f] = p[f]

\* C1: while train_model runs concurrently with a read operation the reader
\* never observes a partially updated trained state: whenever a thread is
\* inside a read operation, the matrix, the two similarity matrices, the
\* mappings and the flag it can see all come from one training pass, and so
\* do the fields it has read.
C1_ReaderSeesOnePass ==
  reader.pc # "idle" =>
    /\ FromOnePass(svc, TrainedFields)
    /\ FromOnePass(reader.view, reader.seen)

\* what a reader has read when it returns comes from one training pass
ReaderReadOnePass ==
  reader.seen # {} => FromOnePass(reader.view, reader.seen)

\* a training pass that runs alone leaves what train_model computes
TrainerAloneAgrees ==
  trainer.pc = "idle" => svc \in passes

(***************************************************************************)
(* Properties of the write side (SpecRecord)                               *)
(***************************************************************************)
\* the event the last record_interaction call asked to store, stamped now
LastEvent == Event(last.session, last.product, last.kind, now)

\* the last call was a record_interaction whose upsert was committed
LastStored == last.op = "record" /\ LastEvent \in interactions

OneEventPerTuple(log) ==
  \A e1, e2 \in log :
    (e1.session = e2.session /\ e1.product = e2.product /\ e1.kind = e2.kind)
      => e1 = e2

C5_MissingProductFails ==
  [][(last'.op = "record" /\ last'.product \notin Catalog) =>
       /\ ~last'.ok
       /\ last'.trains = 0
       /\ interactions' = interactions
       /\ svc' = svc]_vars

\* C5 witness: a call named the product the catalog does not hold
C5_Witness ==
  last.op = "record" /\ last.product = MissingProduct /\ ~last.ok

\* C6: train_model on an empty table returns failure and an untrained
\* service stays untrained; on a non-empty table with no fault it returns
\* success and leaves the service trained.
C6_TrainOutcome ==
  [][last'.op = "train" =>
       /\ interactions = {} =>
            (~last'.ok /\ (~svc.is_trained => ~svc'.is_trained))
       /\ (interactions # {} /\ last'.fault = "none") =>
            (last'.ok /\ svc'.is_trained)]_vars

\* C6 witness: train_model ran on an empty table
C6_Witness ==
  last.op = "train" /\ interactions = {} /\ ~last.ok /\ ~svc.is_trained

(***************************************************************************)
(* Properties of the read side (SpecRead)                                  *)
(***************************************************************************)
\* the products a result lists, and whether it lists none twice
ProductsOf(result) == {result[x].product : x \in DOMAIN result}
NoRepeat(result) == Cardinality(ProductsOf(result)) = Len(result)

\* result is the popularity fallback for n: the n active products of most
\* recorded interactions, highest count first, score 1.0, reason "popularity"
IsPopularityFallback(result, n) ==
  /\ Len(result) = Smaller(n, Cardinality(active))
  /\ NoRepeat(result)
  /\ \A x \in DOMAIN result :
       /\ result[x].product \in active
       /\ result[x].score = ScoreOne
       /\ result[x].reason = "popularity"
  /\ \A x, y \in DOMAIN result :
       x < y => Cardinality({e \in interactions : e.product = result[x].product})
                  >= Cardinality({e \in interactions : e.product = result[y].product})
  /\ \A q \in active \ ProductsOf(result) : \A x \in DOMAIN result :
       Cardinality({e \in interactions : e.product = result[x].product})
         >= Cardinality({e \in interactions : e.product = q})

IsCollaborativeResult(result, session_key, n) ==
  /\ ~IsNone(svc.user_item_matrix)
  /\ Len(result) <= n
  /\ NoRepeat(result)
  /\ \A x \in DOMAIN result :
       /\ result[x].reason = "collaborative_filtering"
       /\ ScorePositive(result[x].score)
       /\ result[x].product \in active
       /\ result[x].product \in DOMAIN svc.item_mapping
       /\ Get(svc.user_item_matrix).cell[<<svc.user_mapping[session_key],
                                           svc.item_mapping[result[x].product]>>] = 0
  /\ \A x, y \in DOMAIN result :
       x < y => ~ScoreLess(result[x].score, result[y].score)
  \* no backfill: only the n best predictions are candidates
  /\ ProductsOf(result) \subseteq
       {svc.reverse_item_mapping[c.item] :
          c \in {ComputeUserRecommendations(Get(svc.user_item_matrix),
                                            Get(svc.user_similarity_matrix),
                                            svc.user_mapping[session_key], n)[x] :
                   x \in 1..Len(ComputeUserRecommendations(Get(svc.user_item_matrix),
                                            Get(svc.user_similarity_matrix),
                                            svc.user_mapping[session_key], n))}}

\* C8: on the collaborative path of get_user_recommendations (trained,
\* session in the session mapping) the result has at most n entries in
\* descending predicted score, each with reason "collaborative_filtering"
\* and score > 0, each an active product the session has no weight for in
\* the trained matrix, and inactive candidates are not replaced.
C8_CollaborativePath ==
  (last.op = "recommend" /\ svc.is_trained
     /\ last.session \in DOMAIN svc.user_mapping) =>
    IsCollaborativeResult(last.result, last.session, last.n)

\* the same promise when the trained state still holds its matrix
CollaborativePathWhileMatrixHeld ==
  (last.op = "recommend" /\ svc.is_trained
     /\ last.session \in DOMAIN svc.user_mapping
     /\ ~IsNone(svc.user_item_matrix)) =>
    IsCollaborativeResult(last.result, last.session, last.n)

\* the item-similarity row of product p in the trained state
RowOf(p) ==
  [q \in DOMAIN svc.item_mapping |->
     Get(svc.item_similarity_matrix)[<<svc.item_mapping[p], svc.item_mapping[q]>>]]

\* C9: on the trained path of get_similar_products (trained, product in the
\* product mapping) the queried product is never returned and no other
\* active item of similarity > 0 is left out unless n others rank at or above
\* it, also when another item has similarity exactly 1.0 to the product.
C9_SelfExcludedAndBestKept ==
  (last.op = "similar" /\ svc.is_trained
     /\ last.product \in DOMAIN svc.item_mapping) =>
    /\ last.product \notin ProductsOf(last.result)
    /\ \A x \in DOMAIN last.result : last.result[x].reason = "item_similarity"
    /\ \A q \in (DOMAIN svc.item_mapping \cap active)
                   \ (ProductsOf(last.result) \cup {last.product}) :
         SimPositive(RowOf(last.product)[q]) =>
           Cardinality({r \in DOMAIN svc.item_mapping \ {last.product, q} :
                          ~SimLess(RowOf(last.product)[r], RowOf(last.product)[q])})
             >= last.n

\* result is the category fallback for product p and n
IsCategoryFallback(result, p, n) ==
  /\ Len(result) <= n
  /\ NoRepeat(result)
  /\ p \notin Catalog => result = << >>
  /\ \A x \in DOMAIN result :
       /\ result[x].product \in active
       /\ result[x].product # p
       /\ CategoryOf(result[x].product) = CategoryOf(p)
       /\ result[x].score = ScoreOne
       /\ result[x].reason = "same_category"

\* C10 as stated: get_similar_products for a product that is not in the
\* product mapping, or called while the service is untrained, returns the
\* category fallback.
C10_FallbackWhenCalledUntrained ==
  (last.op = "similar"
     /\ (~last.was_trained \/ last.product \notin DOMAIN svc.item_mapping)) =>
    IsCategoryFallback(last.result, last.product, last.n)

\* C10 amended: get_similar_products for a product that is not in the
\* product mapping, or when the service is still untrained after the training
\* pass the call attempts first, returns at most n active products of the
\* product's category, score 1.0, reason "same_category", never the product
\* itself, and nothing when the product is not in the catalog.
C10_FallbackWhenStillUntrained ==
  (last.op = "similar"
     /\ (~svc.is_trained \/ last.product \notin DOMAIN svc.item_mapping)) =>
    IsCategoryFallback(last.result, last.product, last.n)

\* C10 witness: a trained service served a catalog product that has no
\* recorded interaction from its category
C10_Witness ==
  /\ last.op = "similar" /\ svc.is_trained
  /\ last.product \in Catalog \ DOMAIN svc.item_mapping
  /\ last.result # << >>

(***************************************************************************)
(* The functions of recommendation_engine.py called directly, on matrices  *)
(* of summed interaction weights                                            *)
(***************************************************************************)
\* rows of the matrices the functions are given
EngineRows == 3

\* the rows a matrix is made of: sums of interaction weights, a zero row too
RowChoices ==
  {<<0, 0>>, <<3, 0>>, <<3, -2>>, <<0, 3>>, <<-2, 5>>, <<1, 1>>}

\* the matrix whose rows are the sequence rs
MatrixOfRows(rs) ==
  Matrix(Len(rs), 2, [c \in (0..(Len(rs) - 1)) \X (0..1) |-> rs[c[1] + 1][c[2] + 1]])

\* the values of k a call passes: less than, equal to and more than the
\* number of other rows, the last one the default
KChoices == {1, EngineRows - 1, DefaultK}

InitEngine ==
  /\ interactions = {}
  /\ active = Catalog
  /\ now = 0
  /\ svc = NewService
  /\ last = Call("init")
  /\ trainer = IdleTrainer
  /\ reader = IdleReader
  /\ passes = {}
  /\ recorders = IdleRecorders
  /\ \E rs \in [1..EngineRows -> RowChoices] :
       engine = [IdleEngine EXCEPT !.matrix = MatrixOfRows(rs)]

\* compute_cosine_similarity_matrix(matrix)
CosineSimilarity ==
  /\ engine' = [engine EXCEPT
                  !.op = "cosine",
                  !.sim = ComputeCosineSimilarityMatrix(engine.matrix),
                  !.user_idx = 0, !.item_idx = 0, !.k = 0, !.out = ScoreZero]
  /\ UNCHANGED <<interactions, active, now, svc, last, trainer, reader,
                 passes, recorders>>

\* compute_item_similarity_matrix(matrix)
ItemSimilarity ==
  /\ engine' = [engine EXCEPT
                  !.op = "item",
                  !.sim = ComputeItemSimilarityMatrix(engine.matrix),
                  !.user_idx = 0, !.item_idx = 0, !.k = 0, !.out = ScoreZero]
  /\ UNCHANGED <<interactions, active, now, svc, last, trainer, reader,
                 passes, recorders>>

\* fast_predict_rating(matrix, similarity of its rows, user_idx, item_idx, k)
PredictRating ==
  /\ \E user_idx \in 0..(engine.matrix.rows - 1),
        item_idx \in 0..(engine.matrix.cols - 1), k \in KChoices :
       \E sim \in {ComputeCosineSimilarityMatrix(engine.matrix)} :
         engine' = [engine EXCEPT
                      !.op = "predict", !.sim = sim,
                      !.user_idx = user_idx, !.item_idx = item_idx, !.k = k,
                      !.out = FastPredictRating(engine.matrix, sim,
                                                user_idx, item_idx, k)]
  /\ UNCHANGED <<interactions, active, now, svc, last, trainer, reader,
                 passes, recorders>>

NextEngine ==
  \/ CosineSimilarity
  \/ ItemSimilarity
  \/ PredictRating

SpecEngine == InitEngine /\ [][NextEngine]_vars

(***************************************************************************)
(* Properties of the engine (SpecEngine)                                   *)
(***************************************************************************)
\* two predicted ratings are the same quotient
ScoreEq(a, b) == a.num * b.den = b.num * a.den

\* the prediction from the kept raters K: the similarity-weighted mean of
\* their ratings over those of similarity > 0, 0.0 when there is none
MeanOver(m, sim, user_idx, item_idx, K) ==
  LET used == {r \in K : sim[<<user_idx, r>>].dot > 0}
      w    == [r \in used |-> SimFixed(sim[<<user_idx, r>>])]
      num  == SumOver([r \in used |-> w[r] * m.cell[<<r, item_idx>>]], used)
      den  == SumOver([r \in used |-> Abs(w[r])], used)
  IN IF used = {} \/ den = 0 THEN Score(0, 1) ELSE Score(num, den)

\* the sets of k raters (all of them when fewer) of highest similarity
KeptOf(raters, sim, user_idx, k) ==
  {K \in SUBSET raters :
     /\ Cardinality(K) = Smaller(k, Cardinality(raters))
     /\ \A a \in K, b \in raters \ K :
          ~SimLess(sim[<<user_idx, a>>], sim[<<user_idx, b>>])}

\* C11: fast_predict_rating takes as raters all other rows whose entry in
\* the target column is not 0, negative entries included, keeps the k of
\* highest similarity and returns the weighted mean over those of
\* similarity > 0, or 0.0 when there is none.
C11_RatersAreNonzeroEntries ==
  engine.op = "predict" =>
    \E K \in KeptOf({r \in 0..(engine.matrix.rows - 1) :
                       /\ r # engine.user_idx
                       /\ engine.matrix.cell[<<r, engine.item_idx>>] # 0},
                    engine.sim, engine.user_idx, engine.k) :
      ScoreEq(engine.out,
              MeanOver(engine.matrix, engine.sim, engine.user_idx,
                       engine.item_idx, K))

\* the same with the raters the code takes: the rows of entry > 0
PredictionOverPositiveEntries ==
  engine.op = "predict" =>
    \E K \in KeptOf({r \in 0..(engine.matrix.rows - 1) :
                       /\ r # engine.user_idx
                       /\ engine.matrix.cell[<<r, engine.item_idx>>] > 0},
                    engine.sim, engine.user_idx, engine.k) :
      ScoreEq(engine.out,
              MeanOver(engine.matrix, engine.sim, engine.user_idx,
                       engine.item_idx, K))

\* the similarity value is exactly 1.0, exactly 0.0
IsOne(a) == a.dot > 0 /\ a.ni > 0 /\ a.nj > 0 /\ a.dot * a.dot = a.ni * a.nj
IsZero(a) == a.dot = 0 /\ a.ni > 0 /\ a.nj > 0

\* sim is a symmetric size x size matrix of unit diagonal
SymmetricUnitDiagonal(sim, size) ==
  /\ DOMAIN sim = (0..(size - 1)) \X (0..(size - 1))
  /\ \A i, j \in 0..(size - 1) : sim[<<i, j>>] = sim[<<j, i>>]
  /\ \A i \in 0..(size - 1) : IsOne(sim[<<i, i>>])

\* C12: compute_cosine_similarity_matrix(M) is symmetric with 1.0 on the
\* diagonal of every row, and compute_item_similarity_matrix(M) is the same
\* over the columns of M.
C12_SymmetricUnitDiagonal ==
  /\ engine.op = "cosine" => SymmetricUnitDiagonal(engine.sim, engine.matrix.rows)
  /\ engine.op = "item" => SymmetricUnitDiagonal(engine.sim, engine.matrix.cols)

\* row i of matrix m is the zero vector
ZeroRow(m, i) == \A c \in 0..(m.cols - 1) : m.cell[<<i, c>>] = 0

\* C12 witness: the row similarity of a matrix with a zero row and two rows
\* of similarity strictly between 0 and 1
C12_Witness ==
  /\ engine.op = "cosine"
  /\ \E i \in 0..(engine.matrix.rows - 1) : ZeroRow(engine.matrix, i)
  /\ \E i, j \in 0..(engine.matrix.rows - 1) :
       /\ engine.sim[<<i, j>>].dot > 0
       /\ ~IsOne(engine.sim[<<i, j>>])

\* C13 as stated: the similarity of rows i and j is 0 whenever row i or row
\* j is the zero vector, for all i and j.
C13_ZeroRowGivesZeroEverywhere ==
  engine.op = "cosine" =>
    \A i, j \in 0..(engine.matrix.rows - 1) :
      (ZeroRow(engine.matrix, i) \/ ZeroRow(engine.matrix, j)) =>
        IsZero(engine.sim[<<i, j>>])

\* C13 amended: the similarity of two different rows i and j is 0.0 whenever
\* row i or row j is the zero vector; the diagonal entry of a zero row is 1.0
\* like every diagonal entry.
C13_ZeroRowGivesZeroOffDiagonal ==
  engine.op = "cosine" =>
    \A i, j \in 0..(engine.matrix.rows - 1) :
      (ZeroRow(engine.matrix, i) \/ ZeroRow(engine.matrix, j)) =>
        IF i = j THEN IsOne(engine.sim[<<i, j>>])
        ELSE IsZero(engine.sim[<<i, j>>])

\* C13 witness: a zero row next to a row that is not zero
C13_Witness ==
  /\ engine.op = "cosine"
  /\ \E i, j \in 0..(engine.matrix.rows - 1) :
       /\ ZeroRow(engine.matrix, i) /\ ~ZeroRow(engine.matrix, j)
       /\ IsZero(engine.sim[<<i, j>>]) /\ IsZero(engine.sim[<<j, i>>])

(***************************************************************************)
(* The aggregator on tables of any content: rows of one (session, product, *)
(* kind) more than once, and kinds outside the four known ones             *)
(***************************************************************************)
\* rows of the tables the aggregator is given
MaxLogSize == 3

\* the rows the tables are made of
EventPool ==
  {Event(1, 1, "like", 0), Event(1, 1, "like", 1), Event(1, 1, "dislike", 0),
   Event(1, 2, "view", 0), Event(2, 1, "purchase", 0), Event(2, 1, "view", 1),
   Event(2, 2, "share", 0)}

InitAggregate ==
  /\ interactions \in {log \in SUBSET EventPool : Cardinality(log) <= MaxLogSize}
  /\ active = Catalog
  /\ now = 1
  /\ svc = NewService
  /\ last = Call("init")
  /\ Sequential

\* train_model is the only caller of prepare_interaction_data
NextAggregate == Train

SpecAggregate == InitAggregate /\ [][NextAggregate]_vars

(***************************************************************************)
(* Properties of the aggregator (SpecAggregate)                            *)
(***************************************************************************)
\* the weight the specification gives an event of kind k
StatedWeight(k) ==
  IF k = "view" THEN 1
  ELSE IF k = "like" THEN 3
  ELSE IF k = "dislike" THEN -2
  ELSE IF k = "purchase" THEN 5
  ELSE 1

\* the sum of the stated weights of the events of the pair (s, p)
StatedSum(log, s, p) ==
  LET evs == {e \in log : e.session = s /\ e.product = p}
  IN SumOver([e \in evs |-> StatedWeight(e.kind)], evs)

\* the cell of the held matrix for session s and product p
CellOf(s, p) ==
  Get(svc.user_item_matrix).cell[<<svc.user_mapping[s], svc.item_mapping[p]>>]

\* C14: after a training pass each cell of the interaction matrix is the
\* sum of the weights (view 1, like 3, dislike -2, purchase 5, any other
\* kind 1) of all events of its (session, product) pair, 0 for a pair
\* without an event; two like events of one pair give 6.
C14_CellIsSumOfWeights ==
  (last.op = "train" /\ last.ok) =>
    /\ ~IsNone(svc.user_item_matrix)
    /\ DOMAIN svc.user_mapping = {e.session : e \in interactions}
    /\ DOMAIN svc.item_mapping = {e.product : e \in interactions}
    /\ \A s \in DOMAIN svc.user_mapping, p \in DOMAIN svc.item_mapping :
         CellOf(s, p) = StatedSum(interactions, s, p)
    /\ \A s \in DOMAIN svc.user_mapping, p \in DOMAIN svc.item_mapping :
         (\A e \in interactions : ~(e.session = s /\ e.product = p)) =>
           CellOf(s, p) = 0

\* C14 witness: a pass over a table with two like events of one pair, a
\* pair without an event and an event of an unknown kind
C14_Witness ==
  /\ last.op = "train" /\ last.ok
  /\ {Event(1, 1, "like", 0), Event(1, 1, "like", 1), Event(2, 2, "share", 0)}
       = interactions
  /\ CellOf(1, 1) = 6 /\ CellOf(1, 2) = 0 /\ CellOf(2, 2) = 1

(***************************************************************************)
(* Properties of the trained state in runs served one call at a time       *)
(***************************************************************************)
\* mapping numbers its keys 0..size-1 without gap or repeat, and reverse is
\* its exact inverse
BijectionWithInverse(mapping, reverse) ==
  /\ {mapping[x] : x \in DOMAIN mapping} = 0..(Cardinality(DOMAIN mapping) - 1)
  /\ \A x, y \in DOMAIN mapping : mapping[x] = mapping[y] => x = y
  /\ DOMAIN reverse = 0..(Cardinality(DOMAIN mapping) - 1)
  /\ \A x \in DOMAIN mapping : reverse[mapping[x]] = x

\* the held similarity matrix o is size x size
SquareOf(o, size) ==
  ~IsNone(o) /\ DOMAIN Get(o) = (0..(size - 1)) \X (0..(size - 1))

\* the two mappings of the service are bijections with exact inverses
MappingsAreBijections ==
  /\ BijectionWithInverse(svc.user_mapping, svc.reverse_user_mapping)
  /\ BijectionWithInverse(svc.item_mapping, svc.reverse_item_mapping)

\* C15: in every reachable state each mapping is a bijection onto
\* 0..size-1 with its inverse mapping its exact inverse, and once the service
\* is trained the interaction matrix and both similarity matrices are held
\* with the dimensions the mapping sizes give, so an index taken from a
\* mapping only meets matrices of the pass that built the mapping.
C15_IndicesMatchHeldMatrices ==
  /\ MappingsAreBijections
  /\ svc.is_trained =>
       /\ ~IsNone(svc.user_item_matrix)
       /\ Get(svc.user_item_matrix).rows = Cardinality(DOMAIN svc.user_mapping)
       /\ Get(svc.user_item_matrix).cols = Cardinality(DOMAIN svc.item_mapping)
       /\ SquareOf(svc.user_similarity_matrix, Cardinality(DOMAIN svc.user_mapping))
       /\ SquareOf(svc.item_similarity_matrix, Cardinality(DOMAIN svc.item_mapping))

\* the same for the matrices that are still held
IndicesMatchMatricesStillHeld ==
  /\ MappingsAreBijections
  /\ svc.is_trained =>
       /\ IsNone(svc.user_item_matrix) \/
            /\ Get(svc.user_item_matrix).rows = Cardinality(DOMAIN svc.user_mapping)
            /\ Get(svc.user_item_matrix).cols = Cardinality(DOMAIN svc.item_mapping)
       /\ SquareOf(svc.user_similarity_matrix, Cardinality(DOMAIN svc.user_mapping))
       /\ SquareOf(svc.item_similarity_matrix, Cardinality(DOMAIN svc.item_mapping))

\* C18: a train_model call that returns failure on a trained service leaves
\* the whole previous trained state unchanged: the interaction matrix is
\* still present, and matrices, mappings and flag are those of the last
\* successful pass.
C18_FailedRetrainKeepsTrainedState ==
  [][(last'.op = "train" /\ svc.is_trained /\ ~last'.ok) =>
       /\ ~IsNone(svc'.user_item_matrix)
       /\ \A f \in TrainedFields : svc'[f] = svc[f]]_vars

\* whatever a failed retrain does to the interaction matrix, it leaves the
\* similarity matrices, the mappings and the flag as they were
FailedRetrainKeepsAllButMatrix ==
  [][(last'.op = "train" /\ svc.is_trained /\ ~last'.ok) =>
       \A f \in TrainedFields \ {"user_item_matrix"} : svc'[f] = svc[f]]_vars

(***************************************************************************)
(* Only train_model changes the trained state                              *)
(***************************************************************************)
\* the held state is not what a training pass over the present table gives
Stale == svc # TrainModel(svc, interactions, active, "none").svc

\* C16: a read served by a trained service, and a record_interaction call
\* after which the number of events is not a multiple of 50, leave the
\* interaction matrix, both similarity matrices, the mappings, the content
\* features and the trained flag unchanged.
C16_OnlyTrainChangesTrainedState ==
  [][(\/ last'.op \in {"recommend", "similar"} /\ svc.is_trained
      \/ last'.op = "record" /\ Cardinality(interactions') % RetrainEvery # 0)
     => svc' = svc]_vars

\* a read was served by a trained service whose state a training pass would
\* have changed
C16_Witness ==
  /\ last.op \in {"recommend", "similar"}
  /\ last.was_trained
  /\ last.trains = 0
  /\ Stale

(***************************************************************************)
(* The reads return a list                                                 *)
(***************************************************************************)
\* a Python list of recommendation records
IsList(result) ==
  /\ DOMAIN result = 1..Len(result)
  /\ \A x \in DOMAIN result :
       DOMAIN result[x] = {"product", "score", "reason"}

MaxRecords == 4

\* the products the session of these runs interacts with
KindProducts == {1, 2}

InitKinds ==
  /\ interactions = {}
  /\ active = Catalog
  /\ now = 0
  /\ svc = NewService
  /\ last = Call("init")
  /\ Sequential

\* record_interaction(session_key, product_id, interaction_type) with each
\* of the interaction types the views pass
RecordKnownKind ==
  \E session_key \in {MinOf(Sessions)}, product_id \in KindProducts, kind \in Kinds :
    \E out \in {RecordOutcome(svc, interactions, active, now + 1,
                               session_key, product_id, kind, "none")} :
       /\ now < MaxRecords
       /\ interactions' = out.log
       /\ svc' = out.svc
       /\ last' = out.call
       /\ now' = now + 1
       /\ UNCHANGED active
       /\ UNCHANGED conc

NextKinds ==
  \/ RecordKnownKind
  \/ Train

SpecKinds == InitKinds /\ [][NextKinds]_vars

\* the kinds of the events the table holds of the pair (s, p)
KindsOf(s, p) ==
  {e.kind : e \in {x \in interactions : x.session = s /\ x.product = p}}

MaxCalls == 2

InitRecordConc ==
  /\ interactions \in {OldLog(RetrainEvery - 2), OldLog(RetrainEvery - 1)}
  /\ active = Catalog
  /\ now = 0
  /\ svc = NewService
  /\ last = Call("init")
  /\ Sequential

\* the recorders after thread t moves to r
RecorderStep(t, r) == recorders' = [recorders EXCEPT ![t] = r]

\* line 291: thread t enters record_interaction for a tuple its session has
\* not recorded yet, and finds the product
RecordBegin ==
  \E t \in Threads, product_id \in KindProducts, kind \in RequestKinds :
    /\ recorders[t].pc = "idle"
    /\ recorders[t].calls < MaxCalls
    /\ ProductExists(product_id)
    /\ Matching(interactions, t, product_id, kind) = {}
    /\ RecorderStep(t, [recorders[t] EXCEPT
                          !.pc = "upsert", !.product = product_id, !.kind = kind])
    /\ UNCHANGED <<interactions, active, now, svc, last>>
    /\ UNCHANGED <<trainer, reader, passes, engine>>

\* lines 294-303: get_or_create inserts the row
RecordUpsert ==
  \E t \in Threads :
    /\ recorders[t].pc = "upsert"
    /\ interactions' = Upsert(interactions, t, recorders[t].product,
                              recorders[t].kind, now)
    /\ RecorderStep(t, [recorders[t] EXCEPT !.pc = "count"])
    /\ UNCHANGED <<active, now, svc, last>>
    /\ UNCHANGED <<trainer, reader, passes, engine>>

\* line 306: interaction_count = UserInteraction.objects.count()
RecordCount ==
  \E t \in Threads :
    /\ recorders[t].pc = "count"
    /\ RecorderStep(t, [recorders[t] EXCEPT
                          !.pc = "check", !.count = Cardinality(interactions)])
    /\ UNCHANGED <<interactions, active, now, svc, last>>
    /\ UNCHANGED <<trainer, reader, passes, engine>>

\* lines 307-310: the retrain check on the count read, train_model on the
\* table as it is by then, and the return
RecordCheck ==
  \E t \in Threads :
    /\ recorders[t].pc = "check"
    /\ IF RetrainDue(recorders[t].count)
       THEN /\ svc' = TrainModel(svc, interactions, active, "none").svc
            /\ RecorderStep(t, [recorders[t] EXCEPT
                                  !.pc = "idle",
                                  !.calls = recorders[t].calls + 1,
                                  !.trains = recorders[t].trains + 1])
       ELSE /\ svc' = svc
            /\ RecorderStep(t, [recorders[t] EXCEPT
                                  !.pc = "idle",
                                  !.calls = recorders[t].calls + 1])
    /\ UNCHANGED <<interactions, active, now, last>>
    /\ UNCHANGED <<trainer, reader, passes, engine>>

NextRecordConc ==
  \/ RecordBegin
  \/ RecordUpsert
  \/ RecordCount
  \/ RecordCheck

SpecRecordConc == InitRecordConc /\ [][NextRecordConc]_vars

\* every call has returned
AllReturned == \A t \in Threads : recorders[t].pc = "idle"

RecorderAloneRetrains ==
  (AllReturned /\ Cardinality(interactions) >= RetrainEvery
   /\ \E t \in Threads : recorders[t].calls = 0)
    => \E t \in Threads : recorders[t].trains > 0

\* a train_model call is only made by a thread that counted a multiple of 50
TrainsOnlyOnMultiple ==
  \A t \in Threads :
    recorders[t].trains > 0 => Cardinality(interactions) >= RetrainEvery

(***************************************************************************)
(* Recommendations against the present table                               *)
(***************************************************************************)
\* the products of the table session s has an event for
InteractedWith(s) == {e.product : e \in {x \in interactions : x.session = s}}

\* the last call was get_user_recommendations and it returned from the
\* collaborative branch with at least one product
CollaborativeReturn ==
  /\ last.op = "recommend"
  /\ last.result # << >>
  /\ \A x \in DOMAIN last.result : last.result[x].reason = "collaborative_filtering"

NoInteractedProductWhenFresh ==
  (CollaborativeReturn /\ ~Stale) =>
    ProductsOf(last.result) \cap InteractedWith(last.session) = {}

====
